---- MODULE Spec2Model ----
(***************************************************************************)
(* Model of Rigol_view/Rigol_view.py: one run of the script that reads     *)
(* channel 1 of a USB oscilloscope through PyVISA and dumps the raw bytes  *)
(* into channel1.wav.                                                      *)
(*                                                                         *)
(* Each action is one statement (or one group of adjacent statements) of   *)
(* the script; pc holds the line number of the next statement.  Calls into *)
(* the instrument bus and the file system either return or raise; the      *)
(* exception classes are the ones the script's except clauses tell apart.  *)
(* The two release calls rm.close() and scope.close(), and the close of    *)
(* the wave file at the end of the with block, are taken to return         *)
(* normally.                                                               *)
(***************************************************************************)
EXTENDS Integers, Sequences, FiniteSets, TLC

VARIABLES
    pc,                  \* line of the next statement, or "exited"
    rm,                  \* bus-access handle: "none", "open", "closed"
    resources,           \* result of rm.list_resources()
    usb_resources,       \* the filtered list
    scope_resource_name, \* usb_resources[0]
    scope,               \* instrument session: "none", "open", "closed"
    openedOn,            \* the identifier handed to rm.open_resource
    sample_rate,         \* float(scope.query(':ACQ:SAMP?'))
    rawdata_bytes,       \* result of query_binary_values
    acqStopped,          \* instrument side: acquisition is stopped
    wav_file,            \* wave writer: "none", "open", "closed"
    wavParams,           \* parameters stored by setparams
    file,                \* channel1.wav on disk
    file0,               \* channel1.wav as it was when the run started
    exc,                 \* exception in flight
    handled,             \* the except clause that ran
    exitStatus,          \* argument of sys.exit, 0 when the script falls off its end
    bound,               \* names that have been assigned a value
    log                  \* calls made so far, in order

vars == <<pc, rm, resources, usb_resources, scope_resource_name, scope,
          openedOn, sample_rate, rawdata_bytes, acqStopped, wav_file,
          wavParams, file, file0, exc, handled, exitStatus, bound, log>>

----------------------------------------------------------------------------
(* Bounds *)

MaxResources == 2
MaxBlockLen == 2

----------------------------------------------------------------------------
(* Values *)

None == "None"

\* Resource identifiers, as character sequences
UsbName == <<"U","S","B","0",":",":","I","N","S","T","R">>
Usb2Name == <<"U","S","B","1",":",":","I","N","S","T","R">>
AsrlName == <<"A","S","R","L","1",":",":","I","N","S","T","R">>
TcpName == <<"T","C","P","I","P",":",":","U","S","B","G","W">>
LowerName == <<"u","s","b","0",":",":","I","N","S","T","R">>

ResourceNames == {UsbName, Usb2Name, AsrlName, TcpName, LowerName}

RECURSIVE SeqsUpTo(_, _)
SeqsUpTo(S, n) ==
    IF n = 0 THEN {<<>>}
    ELSE LET shorter == SeqsUpTo(S, n - 1)
         IN  shorter \cup {Append(s, x) : s \in {t \in shorter : Len(t) = n - 1}, x \in S}

IsInjective(s) == \A i, j \in DOMAIN s : s[i] = s[j] => i = j

\* list_resources reports each attached instrument once
ResourceLists == {rs \in SeqsUpTo(ResourceNames, MaxResources) : IsInjective(rs)}

Bytes == {0, 128, 255}
Blocks == SeqsUpTo(Bytes, MaxBlockLen)

\* Replies of the instrument to :ACQ:SAMP?
SampleRateReplies ==
    { <<"1","0","0","0","0","0","0",".","0">>,
      <<"2","5",".","9">>,
      <<"1",".","5">>,
      <<"0",".","5">>,
      <<"-","1",".","5">>,
      <<"8">>,
      <<"i","n","f">>,
      <<"N","/","A">>,
      <<>> }

\* channel1.wav on disk: header holds the container header when one has
\* been written, data the payload bytes
\* channel1.wav left by an earlier run
OldFile == [exists |-> TRUE,
            header |-> <<[nchannels |-> 1, sampwidth |-> 1, framerate |-> 8000,
                          nframes |-> 1, comptype |-> "NONE"]>>,
            data |-> <<7>>]
NoFile == [exists |-> FALSE, header |-> <<>>, data |-> <<>>]
EmptyFile == [exists |-> TRUE, header |-> <<>>, data |-> <<>>]

\* The instrument commands, in the order the script issues them
Commands == <<":ACQ:SAMP?", ":STOP", ":WAV:POIN:MODE RAW", ":WAV:DATA? CHAN1", ":KEY:FORCE">>

BusErrors == {"VisaIOError", "Exception"}

----------------------------------------------------------------------------
(* Pure functions *)

\* 'USB' in res: substring test
HasPrefix(pre, s) ==
    /\ Len(pre) <= Len(s)
    /\ \A i \in 1..Len(pre) : s[i] = pre[i]

ContainsUSB(res) ==
    \E k \in 0..Len(res) :
        k + 3 <= Len(res) /\ SubSeq(res, k + 1, k + 3) = <<"U","S","B">>

\* [res for res in resources if 'USB' in res], with a prefix test in place
\* of the substring test
UsbResourcesPrefix(rs) == SelectSeq(rs, LAMBDA res : HasPrefix(<<"U","S","B">>, res))

\* [res for res in resources if 'USB' in res]
UsbResources(rs) == SelectSeq(rs, ContainsUSB)

DigitChars == <<"0","1","2","3","4","5","6","7","8","9">>
IsDigit(c) == \E i \in 1..10 : DigitChars[i] = c
DigitVal(c) == (CHOOSE i \in 1..10 : DigitChars[i] = c) - 1

RECURSIVE DigitsVal(_)
DigitsVal(ds) ==
    IF ds = <<>> THEN 0
    ELSE 10 * DigitsVal(SubSeq(ds, 1, Len(ds) - 1)) + DigitVal(ds[Len(ds)])

RECURSIVE Pow10(_)
Pow10(k) == IF k = 0 THEN 1 ELSE 10 * Pow10(k - 1)

Inf == [inf |-> TRUE, num |-> 0, den |-> 1]

Unsigned(s) == IF s # <<>> /\ s[1] \in {"-", "+"} THEN Tail(s) ELSE s
DotAt(s) == IF \E i \in DOMAIN s : s[i] = "."
            THEN CHOOSE i \in DOMAIN s : s[i] = "."
            ELSE Len(s) + 1
IntPart(s) == SubSeq(Unsigned(s), 1, DotAt(Unsigned(s)) - 1)
FracPart(s) == SubSeq(Unsigned(s), DotAt(Unsigned(s)) + 1, Len(Unsigned(s)))

\* the texts float() accepts: inf, or an optionally signed decimal numeral
\* with at least one digit
IsFloatText(s) ==
    \/ Unsigned(s) = <<"i","n","f">>
    \/ /\ \A i \in DOMAIN IntPart(s) : IsDigit(IntPart(s)[i])
       /\ \A i \in DOMAIN FracPart(s) : IsDigit(FracPart(s)[i])
       /\ Len(IntPart(s)) + Len(FracPart(s)) > 0

\* float(text) as the fraction num/den; defined where IsFloatText holds
Float(s) ==
    IF Unsigned(s) = <<"i","n","f">> THEN Inf
    ELSE LET mag == DigitsVal(IntPart(s) \o FracPart(s))
         IN  [inf |-> FALSE,
              num |-> IF s[1] = "-" THEN 0 - mag ELSE mag,
              den |-> Pow10(Len(FracPart(s)))]

Abs(n) == IF n < 0 THEN 0 - n ELSE n

\* int(x), rounding to the nearest integer instead of truncating
IntOfRounding(x) ==
    IF x.num < 0 THEN 0 - ((2 * Abs(x.num) + x.den) \div (2 * x.den))
    ELSE (2 * x.num + x.den) \div (2 * x.den)

\* int(x) for a finite float: truncation toward zero
IntOf(x) ==
    IF x.num < 0 THEN 0 - (Abs(x.num) \div x.den) ELSE x.num \div x.den

\* bytes(rawdata_bytes): the same values, each one byte
BytesOf(vals) == [i \in 1..Len(vals) |-> vals[i] % 256]

\* the except clause (line) that receives an exception raised in the try
\* block, were "except Exception" a bare except
HandlerForBare(e) ==
    IF e = "VisaIOError" THEN "L78" ELSE "L80"

\* the except clause (line) that receives an exception raised in the try
\* block; SystemExit is not an Exception and goes straight to finally
HandlerFor(e) ==
    IF e = "VisaIOError" THEN "L78"
    ELSE IF e = "Exception" THEN "L80"
    ELSE "L82"

IsCommand(ev) == \E i \in DOMAIN Commands : Commands[i] = ev
Sent == SelectSeq(log, IsCommand)
Count(ev) == Len(SelectSeq(log, LAMBDA x : x = ev))

----------------------------------------------------------------------------
(* The run *)

Init ==
    /\ pc = "L16"
    /\ rm = "none"
    /\ resources = None
    /\ usb_resources = None
    /\ scope_resource_name = None
    /\ scope = "none"
    /\ openedOn = None
    /\ sample_rate = None
    /\ rawdata_bytes = None
    /\ acqStopped = FALSE
    /\ wav_file = "none"
    /\ wavParams = None
    /\ file0 \in {NoFile, OldFile}
    /\ file = file0
    /\ exc = "none"
    /\ handled = "none"
    /\ exitStatus = 0
    /\ bound = {}
    /\ log = <<>>

\* an exception e leaves the try block
Raise(e) ==
    /\ exc' = e
    /\ pc' = HandlerFor(e)

\* lines 14-19: rm = pyvisa.ResourceManager(), LibraryError -> sys.exit(-1)
InitResourceManager ==
    /\ pc = "L16"
    /\ \/ /\ rm' = "open"
          /\ pc' = "L23"
          /\ UNCHANGED <<exc, exitStatus>>
       \/ /\ exc' = "LibraryError"
          /\ exitStatus' = -1
          /\ pc' = "exited"
          /\ UNCHANGED rm
    /\ bound' = IF pc' = "L23" THEN bound \cup {"rm"} ELSE bound
    /\ UNCHANGED <<resources, usb_resources, scope_resource_name, scope,
                   openedOn, sample_rate, rawdata_bytes, acqStopped, wav_file,
                   wavParams, file, file0, handled, log>>

\* line 23: resources = rm.list_resources()
ListResources ==
    /\ pc = "L23"
    /\ log' = Append(log, "list_resources")
    /\ \/ \E rs \in ResourceLists :
             /\ resources' = rs
             /\ pc' = "L27"
             /\ UNCHANGED exc
       \/ \E e \in BusErrors :
             /\ Raise(e)
             /\ UNCHANGED resources
    /\ bound' = IF pc' = "L27" THEN bound \cup {"resources"} ELSE bound
    /\ UNCHANGED <<rm, usb_resources, scope_resource_name, scope, openedOn,
                   sample_rate, rawdata_bytes, acqStopped, wav_file, wavParams,
                   file, file0, handled, exitStatus>>

\* lines 27-33: filter, the count test, rm.close() and sys.exit(-1), or
\* scope_resource_name = usb_resources[0]
SelectUsbResource ==
    /\ pc = "L27"
    /\ usb_resources' = UsbResources(resources)
    /\ IF Len(usb_resources') # 1
       THEN /\ rm' = "closed"
            /\ log' = Append(log, "rm.close")
            /\ Raise("SystemExit")
            /\ UNCHANGED scope_resource_name
       ELSE /\ scope_resource_name' = usb_resources'[1]
            /\ pc' = "L37"
            /\ UNCHANGED <<rm, log, exc>>
    /\ bound' = bound \cup {"usb_resources"}
                   \cup (IF pc' = "L37" THEN {"scope_resource_name"} ELSE {})
    /\ UNCHANGED <<resources, scope, openedOn, sample_rate, rawdata_bytes,
                   acqStopped, wav_file, wavParams, file, file0, handled,
                   exitStatus>>

\* line 37: scope = rm.open_resource(scope_resource_name, ...)
OpenResource ==
    /\ pc = "L37"
    /\ log' = Append(log, "open_resource")
    /\ openedOn' = scope_resource_name
    /\ \/ /\ scope' = "open"
          /\ pc' = "L40"
          /\ UNCHANGED exc
       \/ \E e \in BusErrors :
             /\ Raise(e)
             /\ UNCHANGED scope
    /\ bound' = IF pc' = "L40" THEN bound \cup {"scope"} ELSE bound
    /\ UNCHANGED <<rm, resources, usb_resources, scope_resource_name,
                   sample_rate, rawdata_bytes, acqStopped, wav_file, wavParams,
                   file, file0, handled, exitStatus>>

\* line 40: sample_rate = float(scope.query(':ACQ:SAMP?'))
QuerySampleRate ==
    /\ pc = "L40"
    /\ log' = Append(log, ":ACQ:SAMP?")
    /\ \/ \E reply \in SampleRateReplies :
             IF IsFloatText(reply)
             THEN /\ sample_rate' = Float(reply)
                  /\ pc' = "L44"
                  /\ UNCHANGED exc
             ELSE /\ Raise("Exception")
                  /\ UNCHANGED sample_rate
       \/ \E e \in BusErrors :
             /\ Raise(e)
             /\ UNCHANGED sample_rate
    /\ bound' = IF pc' = "L44" THEN bound \cup {"sample_rate"} ELSE bound
    /\ UNCHANGED <<rm, resources, usb_resources, scope_resource_name, scope,
                   openedOn, rawdata_bytes, acqStopped, wav_file, wavParams,
                   file, file0, handled, exitStatus>>

\* line 44: scope.write(":STOP")
WriteStop ==
    /\ pc = "L44"
    /\ log' = Append(log, ":STOP")
    /\ \/ /\ acqStopped' = TRUE
          /\ pc' = "L45"
          /\ UNCHANGED exc
       \/ \E e \in BusErrors, stopped \in BOOLEAN :
             /\ acqStopped' = stopped
             /\ Raise(e)
    /\ UNCHANGED bound
    /\ UNCHANGED <<rm, resources, usb_resources, scope_resource_name, scope,
                   openedOn, sample_rate, rawdata_bytes, wav_file, wavParams,
                   file, file0, handled, exitStatus>>

\* line 45: scope.write(":WAV:POIN:MODE RAW")
WriteRawMode ==
    /\ pc = "L45"
    /\ log' = Append(log, ":WAV:POIN:MODE RAW")
    /\ \/ /\ pc' = "L47"
          /\ UNCHANGED exc
       \/ \E e \in BusErrors : Raise(e)
    /\ UNCHANGED bound
    /\ UNCHANGED <<rm, resources, usb_resources, scope_resource_name, scope,
                   openedOn, sample_rate, rawdata_bytes, acqStopped, wav_file,
                   wavParams, file, file0, handled, exitStatus>>

\* lines 47-48 with the read retried once after a failure
QueryBinaryValuesRetry ==
    /\ pc = "L47"
    /\ log' = Append(log, ":WAV:DATA? CHAN1")
    /\ \/ \E block \in Blocks :
             /\ rawdata_bytes' = block
             /\ pc' = "L51"
             /\ UNCHANGED exc
       \/ /\ Count(":WAV:DATA? CHAN1") = 0
          /\ UNCHANGED <<pc, exc, rawdata_bytes>>
       \/ \E e \in BusErrors :
             /\ Count(":WAV:DATA? CHAN1") > 0
             /\ Raise(e)
             /\ UNCHANGED rawdata_bytes
    /\ bound' = IF pc' = "L51" THEN bound \cup {"rawdata_bytes"} ELSE bound
    /\ UNCHANGED <<rm, resources, usb_resources, scope_resource_name, scope,
                   openedOn, sample_rate, acqStopped, wav_file, wavParams,
                   file, file0, handled, exitStatus>>

\* lines 47-48 with a bus failure of the read reported on the spot and the
\* run going on with an empty block
QueryBinaryValuesSwallow ==
    /\ pc = "L47"
    /\ log' = Append(log, ":WAV:DATA? CHAN1")
    /\ \/ \E block \in Blocks :
             /\ rawdata_bytes' = block
             /\ UNCHANGED handled
       \/ /\ rawdata_bytes' = <<>>
          /\ handled' = "VisaIOError"
    /\ pc' = "L51"
    /\ bound' = bound \cup {"rawdata_bytes"}
    /\ UNCHANGED <<rm, resources, usb_resources, scope_resource_name, scope,
                   openedOn, sample_rate, acqStopped, wav_file, wavParams,
                   file, file0, exc, exitStatus>>

\* lines 47-48: rawdata_bytes = scope.query_binary_values(":WAV:DATA? CHAN1", ...)
QueryBinaryValues ==
    /\ pc = "L47"
    /\ log' = Append(log, ":WAV:DATA? CHAN1")
    /\ \/ \E block \in Blocks :
             /\ rawdata_bytes' = block
             /\ pc' = "L51"
             /\ UNCHANGED exc
       \/ \E e \in BusErrors :
             /\ Raise(e)
             /\ UNCHANGED rawdata_bytes
    /\ bound' = IF pc' = "L51" THEN bound \cup {"rawdata_bytes"} ELSE bound
    /\ UNCHANGED <<rm, resources, usb_resources, scope_resource_name, scope,
                   openedOn, sample_rate, acqStopped, wav_file, wavParams,
                   file, file0, handled, exitStatus>>

\* line 51: scope.write(":KEY:FORCE")
WriteKeyForce ==
    /\ pc = "L51"
    /\ log' = Append(log, ":KEY:FORCE")
    /\ \/ /\ pc' = "L52"
          /\ UNCHANGED exc
       \/ \E e \in BusErrors : Raise(e)
    /\ UNCHANGED bound
    /\ UNCHANGED <<rm, resources, usb_resources, scope_resource_name, scope,
                   openedOn, sample_rate, rawdata_bytes, acqStopped, wav_file,
                   wavParams, file, file0, handled, exitStatus>>

\* line 52: scope.close()
CloseScope ==
    /\ pc = "L52"
    /\ log' = Append(log, "scope.close")
    /\ scope' = "closed"
    /\ pc' = "L63"
    /\ UNCHANGED bound
    /\ UNCHANGED <<rm, resources, usb_resources, scope_resource_name,
                   openedOn, sample_rate, rawdata_bytes, acqStopped, wav_file,
                   wavParams, file, file0, exc, handled, exitStatus>>

\* proper prefixes of a byte sequence
ProperPrefixes(data) == {SubSeq(data, 1, n) : n \in 0..(Len(data) - 1)}

\* line 63: wave.open(wav_filename, "wb") creates or truncates channel1.wav
WaveOpen ==
    /\ pc = "L63"
    /\ log' = Append(log, "wave.open")
    /\ \/ /\ file' = EmptyFile
          /\ wav_file' = "open"
          /\ pc' = "L68"
          /\ UNCHANGED exc
       \/ /\ Raise("Exception")
          /\ UNCHANGED <<file, wav_file>>
    /\ bound' = IF pc' = "L68" THEN bound \cup {"wav_file"} ELSE bound
    /\ UNCHANGED <<rm, resources, usb_resources, scope_resource_name, scope,
                   openedOn, sample_rate, rawdata_bytes, acqStopped, wavParams,
                   file0, handled, exitStatus>>

\* lines 64-69: wav_file.setparams((1, 1, int(sample_rate), data_size,
\* "NONE", "not compressed")); int() rejects inf and setparams rejects a
\* frame rate that is not positive; the with block closes the writer on the
\* way out
SetParams ==
    /\ pc = "L68"
    /\ log' = Append(log, "setparams")
    /\ IF sample_rate.inf \/ IntOf(sample_rate) <= 0
       THEN /\ wav_file' = "closed"
            /\ Raise("Exception")
            /\ UNCHANGED wavParams
       ELSE /\ wavParams' = [nchannels |-> 1, sampwidth |-> 1,
                             framerate |-> IntOf(sample_rate),
                             nframes |-> Len(rawdata_bytes),
                             comptype |-> "NONE"]
            /\ pc' = "L71"
            /\ UNCHANGED <<wav_file, exc>>
    /\ UNCHANGED bound
    /\ UNCHANGED <<rm, resources, usb_resources, scope_resource_name, scope,
                   openedOn, sample_rate, rawdata_bytes, acqStopped, file,
                   file0, handled, exitStatus>>

\* line 71: wav_file.writeframes(rawdata_bytes_as_bytes) writes the header
\* and the payload; a failing write leaves what had reached the disk
WriteFrames ==
    /\ pc = "L71"
    /\ log' = Append(log, "writeframes")
    /\ \/ /\ file' = [exists |-> TRUE, header |-> <<wavParams>>,
                      data |-> BytesOf(rawdata_bytes)]
          /\ pc' = "L72"
          /\ UNCHANGED <<wav_file, exc>>
       \/ /\ \/ file' = EmptyFile
             \/ \E part \in ProperPrefixes(BytesOf(rawdata_bytes)) :
                   file' = [exists |-> TRUE, header |-> <<wavParams>>, data |-> part]
          /\ wav_file' = "closed"
          /\ Raise("Exception")
    /\ UNCHANGED bound
    /\ UNCHANGED <<rm, resources, usb_resources, scope_resource_name, scope,
                   openedOn, sample_rate, rawdata_bytes, acqStopped, wavParams,
                   file0, handled, exitStatus>>

\* lines 63, 73: normal exit from the with block closes the writer
WithExit ==
    /\ pc = "L72"
    /\ log' = Append(log, "wav_file.close")
    /\ wav_file' = "closed"
    /\ pc' = "L82"
    /\ UNCHANGED bound
    /\ UNCHANGED <<rm, resources, usb_resources, scope_resource_name, scope,
                   openedOn, sample_rate, rawdata_bytes, acqStopped, wavParams,
                   file, file0, exc, handled, exitStatus>>

\* lines 78-79 with a handler that also releases the instrument: it sends
\* :KEY:FORCE and closes the session when one is open
ExceptVisaIOErrorCleanup ==
    /\ pc = "L78"
    /\ handled' = exc
    /\ exc' = "none"
    /\ pc' = "L82"
    /\ IF scope = "open"
       THEN /\ log' = log \o <<":KEY:FORCE", "scope.close">>
            /\ scope' = "closed"
       ELSE UNCHANGED <<log, scope>>
    /\ UNCHANGED bound
    /\ UNCHANGED <<rm, resources, usb_resources, scope_resource_name,
                   openedOn, sample_rate, rawdata_bytes, acqStopped, wav_file,
                   wavParams, file, file0, exitStatus>>

\* lines 78-79: except pyvisa.errors.VisaIOError
ExceptVisaIOError ==
    /\ pc = "L78"
    /\ handled' = exc
    /\ exc' = "none"
    /\ pc' = "L82"
    /\ UNCHANGED bound
    /\ UNCHANGED <<rm, resources, usb_resources, scope_resource_name, scope,
                   openedOn, sample_rate, rawdata_bytes, acqStopped, wav_file,
                   wavParams, file, file0, exitStatus, log>>

\* lines 80-81: except Exception
ExceptException ==
    /\ pc = "L80"
    /\ handled' = exc
    /\ exc' = "none"
    /\ pc' = "L82"
    /\ UNCHANGED bound
    /\ UNCHANGED <<rm, resources, usb_resources, scope_resource_name, scope,
                   openedOn, sample_rate, rawdata_bytes, acqStopped, wav_file,
                   wavParams, file, file0, exitStatus, log>>

\* lines 82-83 without the rm.close() of the finally clause
FinallyNoClose ==
    /\ pc = "L82"
    /\ exitStatus' = IF exc = "SystemExit" THEN -1 ELSE 0
    /\ pc' = "exited"
    /\ UNCHANGED bound
    /\ UNCHANGED <<rm, log, resources, usb_resources, scope_resource_name, scope,
                   openedOn, sample_rate, rawdata_bytes, acqStopped, wav_file,
                   wavParams, file, file0, exc, handled>>

\* lines 82-83: finally: rm.close(); then the process ends, with status -1
\* when sys.exit(-1) is in flight
Finally ==
    /\ pc = "L82"
    /\ rm' = "closed"
    /\ log' = Append(log, "rm.close")
    /\ exitStatus' = IF exc = "SystemExit" THEN -1 ELSE 0
    /\ pc' = "exited"
    /\ UNCHANGED bound
    /\ UNCHANGED <<resources, usb_resources, scope_resource_name, scope,
                   openedOn, sample_rate, rawdata_bytes, acqStopped, wav_file,
                   wavParams, file, file0, exc, handled>>

Next ==
    \/ InitResourceManager
    \/ ListResources
    \/ SelectUsbResource
    \/ OpenResource
    \/ QuerySampleRate
    \/ WriteStop
    \/ WriteRawMode
    \/ QueryBinaryValues
    \/ WriteKeyForce
    \/ CloseScope
    \/ WaveOpen
    \/ SetParams
    \/ WriteFrames
    \/ WithExit
    \/ ExceptVisaIOError
    \/ ExceptException
    \/ Finally

Spec == Init /\ [][Next]_vars

----------------------------------------------------------------------------
(* Shorthands for the properties *)

Exited == pc = "exited"
Releases == Count("rm.close")
\* the run ended in one of the failures
Failed == Exited /\ (exc # "none" \/ handled # "none")
\* position of the first occurrence of an event in the log, 0 when absent
Pos(ev) == IF \E i \in DOMAIN log : log[i] = ev
           THEN CHOOSE i \in DOMAIN log : log[i] = ev /\ \A j \in 1..(i - 1) : log[j] # ev
           ELSE 0

TypeOK ==
    /\ rm \in {"none", "open", "closed"}
    /\ scope \in {"none", "open", "closed"}
    /\ wav_file \in {"none", "open", "closed"}
    /\ exc \in {"none", "LibraryError", "VisaIOError", "Exception", "SystemExit"}
    /\ handled \in {"none", "VisaIOError", "Exception"}
    /\ exitStatus \in {0, -1}

\* the run reached its end with no exception raised
Succeeded == Exited /\ exc = "none" /\ handled = "none"
\* indices of the enumerated identifiers that contain USB
UsbMatches == {i \in DOMAIN resources : ContainsUSB(resources[i])}
\* the order of all calls of a run that succeeds, the release left out
FullOrder == <<"list_resources", "open_resource">> \o Commands \o
             <<"scope.close", "wave.open", "setparams", "writeframes", "wav_file.close">>
IsPrefix(p, q) == Len(p) <= Len(q) /\ \A i \in DOMAIN p : p[i] = q[i]
LastSent == Sent[Len(Sent)]

----------------------------------------------------------------------------
(* Properties *)

\* C1: in every run in which the resource manager was created, rm.close()
\* has been called and the handle is closed when the process has ended,
\* whatever the exit path was.
C1_ReleasedBeforeExit ==
    (Exited /\ "rm" \in bound) => (Releases >= 1 /\ rm = "closed")

\* a run that failed while writing the file and ended with the handle released
C1_Witness ==
    Exited /\ handled = "Exception" /\ "wav_file" \in bound /\ Releases >= 1

\* C2 as stated: at the end of every run in which the resource manager was
\* created, rm.close() has been called exactly once.
C2_ReleasedExactlyOnce ==
    (Exited /\ "rm" \in bound) => Releases = 1

\* C3 as stated: at the end of every run in which open_resource returned a
\* session, scope.close() has been called exactly once and the session is
\* closed.
C3_SessionClosedExactlyOnce ==
    (Exited /\ "scope" \in bound) => (Count("scope.close") = 1 /\ scope = "closed")

C5_NoOutputOnError ==
    /\ (exc \in {"LibraryError", "SystemExit", "VisaIOError"} \/ handled = "VisaIOError") =>
          /\ file = file0
          /\ Count("wave.open") = 0
          /\ wav_file = "none"
    /\ Count("wave.open") > 0 =>
          /\ Sent = Commands
          /\ scope = "closed"
          /\ Pos("scope.close") < Pos("wave.open")
    /\ (Exited /\ handled = "VisaIOError") => (Releases >= 1 /\ rm = "closed")

\* the binary-block read failed with a bus error and the file of an earlier
\* run is still there
C5_Witness ==
    /\ Exited
    /\ handled = "VisaIOError"
    /\ Sent # <<>>
    /\ LastSent = ":WAV:DATA? CHAN1"
    /\ file0 = OldFile
    /\ file = OldFile

\* C6 as stated: in every run that ends in a failure no call other than the
\* release is made twice, the wave writer is not left open, and channel1.wav
\* is as it was before the run.
C6_NoPartialOutput ==
    Failed =>
        /\ \A i, j \in DOMAIN log : (log[i] = log[j] /\ log[i] # "rm.close") => i = j
        /\ wav_file # "open"
        /\ file = file0

\* C7: in a run that succeeds, channel1.wav holds a header with 1 channel,
\* sample width 1, no compression, a frame rate that is the sample rate
\* truncated to an integer and a frame count that is the length of the
\* block, followed by the bytes of the block in order; an empty block gives
\* a header with zero frames and no payload.
C7_ContainerMatchesBlock ==
    Succeeded =>
        /\ file.exists
        /\ Len(file.header) = 1
        /\ file.header[1].nchannels = 1
        /\ file.header[1].sampwidth = 1
        /\ file.header[1].comptype = "NONE"
        /\ file.header[1].framerate * sample_rate.den <= sample_rate.num
        /\ sample_rate.num < (file.header[1].framerate + 1) * sample_rate.den
        /\ file.header[1].nframes = Len(rawdata_bytes)
        /\ Len(file.data) = Len(rawdata_bytes)
        /\ \A i \in DOMAIN rawdata_bytes : file.data[i] = rawdata_bytes[i]
        /\ rawdata_bytes = <<>> => (file.header[1].nframes = 0 /\ file.data = <<>>)

\* a successful run with the reply 25.9 and a block of two bytes
C7_Witness ==
    /\ Succeeded
    /\ sample_rate = [inf |-> FALSE, num |-> 259, den |-> 10]
    /\ rawdata_bytes = <<255, 0>>
    /\ file.header[1].framerate = 25

C9_LinearOrder ==
    /\ Count("open_resource") <= 1
    /\ IsPrefix(SelectSeq(log, LAMBDA ev : ev # "rm.close"), FullOrder)
    /\ IsPrefix(Sent, Commands)
    /\ Sent # <<>> => "scope" \in bound
    /\ \A i \in DOMAIN log : IsCommand(log[i]) =>
          /\ \E j \in 1..(i - 1) : log[j] = "open_resource"
          /\ \A j \in 1..(i - 1) : log[j] # "scope.close"
    /\ (scope = "closed") => Sent = Commands
    /\ \A i, j \in DOMAIN log : (i < j /\ log[i] = "rm.close") => log[j] = "rm.close"

\* a successful run: every call was made, the release last
C9_Witness ==
    /\ Succeeded
    /\ log = FullOrder \o <<"rm.close">>

\* C10: :KEY:FORCE is issued only after the binary-block read has returned;
\* when :STOP has returned and :WAV:POIN:MODE RAW or the read then failed,
\* the run ends with the acquisition stopped, :KEY:FORCE not issued and the
\* session still open.
C10_NoKeyForceAfterFailedRead ==
    /\ Count(":KEY:FORCE") > 0 => "rawdata_bytes" \in bound
    /\ (Exited /\ Count(":WAV:POIN:MODE RAW") > 0 /\ "rawdata_bytes" \notin bound) =>
          /\ acqStopped
          /\ Count(":KEY:FORCE") = 0
          /\ Count("scope.close") = 0
          /\ scope = "open"

\* the read timed out after :STOP: acquisition stopped, session open
C10_Witness ==
    /\ Exited
    /\ handled = "VisaIOError"
    /\ Sent # <<>>
    /\ LastSent = ":WAV:DATA? CHAN1"
    /\ acqStopped
    /\ scope = "open"

====
